---- MODULE Spec2Model ----
(***************************************************************************)
(* Living-Universe-Engine, src/simulation.js.                              *)
(*                                                                         *)
(* Numbers: a JavaScript Number x is held as the integer x*SC (fixed       *)
(* point, SC units per 1.0); products are rescaled by SC, sin/cos/tanh are *)
(* evaluated by their power series in that arithmetic.                     *)
(* Arrays: every JavaScript array is an object of the heap; history and    *)
(* levels hold references (indices into heap), so that aliasing between    *)
(* the caller's seed, history[t] and levels[t][0] is part of the state.    *)
(* Reference 0 is the value undefined.                                     *)
(***************************************************************************)
EXTENDS Integers, Sequences, FiniteSets, TLC

\* ---------------------------------------------------------------- bounds
Dim == 2
MaxLevel == 3
MaxT == 3
MaxRetro == 2
MaxStr == 2

\* ------------------------------------------------------------- constants
SC == 1000
DEFAULT_DIM == 10
DEFAULT_LEVELS == 50
DEFAULT_STEPS == 100

\* ------------------------------------------------------- number helpers
Mul(a, b) == (a * b) \div SC

Min2(a, b) == IF a < b THEN a ELSE b

Max2(a, b) == IF a > b THEN a ELSE b

\* Math.sin on fixed point values: x - x^3/3! + x^5/5! - x^7/7!
Sin(x) ==
  LET x2 == Mul(x, x)
      x3 == Mul(x2, x)
      x5 == Mul(x3, x2)
      x7 == Mul(x5, x2)
  IN  x - (x3 \div 6) + (x5 \div 120) - (x7 \div 5040)

\* Math.cos on fixed point values: 1 - x^2/2! + x^4/4! - x^6/6!
Cos(x) ==
  LET x2 == Mul(x, x)
      x4 == Mul(x2, x2)
      x6 == Mul(x4, x2)
  IN  SC - (x2 \div 2) + (x4 \div 24) - (x6 \div 720)

\* Math.tanh on fixed point values: sinh(x) / cosh(x), both by series
Tanh(x) ==
  LET x2 == Mul(x, x)
      x3 == Mul(x2, x)
      x4 == Mul(x2, x2)
      x5 == Mul(x3, x2)
      x6 == Mul(x4, x2)
      sh == x + (x3 \div 6) + (x5 \div 120)
      ch == SC + (x2 \div 2) + (x4 \div 24) + (x6 \div 720)
  IN  (sh * SC) \div ch

\* ------------------------------------------------------- vector algebra
\* The outcome of a call: an exception thrown, or the value returned
Thrown == [threw |-> TRUE, v |-> <<>>]

Value(v) == [threw |-> FALSE, v |-> v]

\* new Array(len).fill(0); new Array throws a RangeError for a negative len
zeros(len) == IF len < 0 THEN Thrown ELSE [i \in 1..len |-> 0]

sinVec(v) == [i \in 1..Len(v) |-> Sin(v[i])]

cosVec(v) == [i \in 1..Len(v) |-> Cos(v[i])]

addVec(a, b) == [i \in 1..Len(a) |-> a[i] + b[i]]

subVec(a, b) == [i \in 1..Len(a) |-> a[i] - b[i]]

scaleVec(v, s) == [i \in 1..Len(v) |-> Mul(v[i], s)]

blendVec(a, b, alpha) ==
  LET oneMinus == SC - alpha
  IN  [i \in 1..Len(a) |-> Mul(oneMinus, a[i]) + Mul(alpha, b[i])]

\* ------------------------------------------------------ dynamics models
\* The value of (Math.random() * 2 - 1) * noiseScale for the draw r in [0, SC)
Noise(r, noiseScale) == Mul(2 * r - SC, noiseScale)

\* evolveOscillators: rnd[i+1] is the Math.random() draw of pair i (0-based)
evolveOscillators(prev, systemType, rnd) ==
  LET dt == (5 * SC) \div 100
      k == SC
      coupling == SC \div 10
      gamma == IF systemType = "open" THEN (5 * SC) \div 100
               ELSE IF systemType = "closed" THEN SC \div 100 ELSE 0
      noiseScale == IF systemType = "open" THEN (2 * SC) \div 100 ELSE 0
      dim == Len(prev)
      n == dim \div 2
      xi(i) == prev[2 * i + 1]
      vi(i) == prev[2 * i + 2]
      left(i) == IF i > 0 THEN prev[2 * (i - 1) + 1] ELSE xi(i)
      right(i) == IF i < n - 1 THEN prev[2 * (i + 1) + 1] ELSE xi(i)
      force(i) == (0 - Mul(k, xi(i)))
                  - Mul(coupling, (xi(i) - left(i)) + (xi(i) - right(i)))
      vDamped(i) == Mul(vi(i) + Mul(dt, force(i)), SC - gamma)
      xNext(i) == xi(i) + Mul(dt, vDamped(i))
      vNext(i) == IF noiseScale > 0
                  THEN vDamped(i) + Noise(rnd[i + 1], noiseScale)
                  ELSE vDamped(i)
  IN  [j \in 1..dim |->
         IF j > 2 * n THEN prev[j]
         ELSE IF j % 2 = 1 THEN xNext((j - 1) \div 2)
         ELSE vNext((j - 2) \div 2)]

RECURSIVE SumTo(_, _)
SumTo(v, n) == IF n = 0 THEN 0 ELSE SumTo(v, n - 1) + v[n]

\* evolveIsing: rnd[i] is the Math.random() draw of component i
evolveIsing(prev, systemType, rnd) ==
  LET dim == Len(prev)
      m == (SumTo(prev, dim)) \div (IF dim = 0 THEN 1 ELSE dim)
      J == SC
      h == 0
      beta == SC
      noiseScale == IF systemType = "open" THEN (15 * SC) \div 100 ELSE 0
      localField(i) == IF noiseScale > 0
                       THEN Mul(J, m) + h + Noise(rnd[i], noiseScale)
                       ELSE Mul(J, m) + h
  IN  [i \in 1..dim |-> Tanh(Mul(beta, localField(i)))]


\* ------------------------------------------------------- random draws
\* Values a Math.random() call may return, in [0, SC)
RandVals == {0, (3 * SC) \div 4}

randVec(len, rnd) == [i \in 1..Max2(len, 0) |-> rnd[i]]

\* An evolve call draws once per component or pair of its vector, which is
\* as long as the seed: at most DrawLen draws
DrawLen == Max2(Dim, DEFAULT_DIM)

\* The draws of one step of at most maxLevel levels: the evolve call of
\* level l uses rnd[l]
StepDrawsFor(systemType, maxLevel) ==
  IF systemType = "open"
  THEN {[l \in 0..maxLevel |-> IF l % 2 = 0 THEN d1 ELSE d2] :
          d1 \in {[i \in 1..DrawLen |-> r] : r \in RandVals},
          d2 \in {zeros(DrawLen)}}
  ELSE {[l \in 0..maxLevel |-> zeros(DrawLen)]}

StepDraws(systemType) == StepDrawsFor(systemType, MaxLevel)

\* ---------------------------------------------------------------- state
Universes == {1, 2}
ModelTypes == {"nonlinear", "oscillators", "ising"}
SystemTypes == {"isolated", "open", "closed"}
\* Explicit seed vectors a caller passes
SeedVecs == {zeros(Dim), [i \in 1..Dim |-> (i * SC) \div 2]}
\* Perturbation strengths a caller passes (0, 0.5, 1)
Strengths == {0, SC \div 2, SC}

VARIABLES
  heap,        \* the array objects: heap[r] is the contents of reference r
  seedRef,     \* seedRef[u]: the caller's seed array given to universe u (0: none)
  dim,         \* this.dim
  modelType,   \* this.modelType
  systemType,  \* this.systemType
  history,     \* this.history: sequence of references (history[t] is entry t+1)
  levels,      \* this.levels: time key -> level key -> reference
  running,     \* the run() call in progress, its loop variable t
  lastOp,      \* the last call made: its arguments, whether it threw, its log
  ret,         \* what the last call returned
  runResult,   \* runResult[u]: history and levels (by value) when run() returned
  nRetro,      \* number of retro_influence calls made
  inputs,      \* the page's input elements: whether present, and their .value
  params,      \* what getParameters() returned last
  ensemble,    \* the updateMultiverseStats call in progress: its loop variables
  stats,       \* the ensemble statistics reported last
  sim,         \* the outcome of the reads of the last runBrowserSimulation call
  autoEl,      \* the auto-run checkbox: whether present, and its .checked
  runBtn,      \* the run button: whether present, and its .disabled
  autoRunHandle, \* autoRunHandle: 0 for null, or the id of a loop timer
  loopTimers,  \* ids of the pending setTimeout(loop, 80) timers
  rafs,        \* number of pending requestAnimationFrame callbacks
  simTimers,   \* number of pending setTimeout(..., 220) callbacks
  nextTimer    \* the id the next setTimeout(loop, 80) returns

\* The timers and controls of the page
pageVars == <<sim, autoEl, runBtn, autoRunHandle, loopTimers, rafs, simTimers,
              nextTimer>>

\* The state of the page, which no call on a universe touches
uiVars == <<inputs, params, ensemble, stats, sim, autoEl, runBtn, autoRunHandle,
            loopTimers, rafs, simTimers, nextTimer>>

vars == <<heap, seedRef, dim, modelType, systemType, history, levels,
          running, lastOp, ret, runResult, nRetro, inputs, params,
          ensemble, stats, sim, autoEl, runBtn, autoRunHandle, loopTimers,
          rafs, simTimers, nextTimer>>

EmptyMap == [x \in {} |-> 0]

Put(f, k, v) == [x \in (DOMAIN f) \cup {k} |-> IF x = k THEN v ELSE f[x]]

Idle == [active |-> FALSE, u |-> 0, t |-> 0, steps |-> 0, maxLevel |-> 0,
         fresh |-> FALSE]

NoRet == [kind |-> "none", ref |-> 0, vec |-> <<>>]

NoResult == [done |-> FALSE, steps |-> 0, maxLevel |-> 0, fresh |-> FALSE,
             threw |-> FALSE, history |-> <<>>, levels |-> EmptyMap]

Op(op, u, a, b, c, threw, log) ==
  [op |-> op, u |-> u, a |-> a, b |-> b, c |-> c, threw |-> threw, log |-> log]

\* history and levels by value (references followed into the heap)
HistVals(hp, hist) == [i \in 1..Len(hist) |-> hp[hist[i]]]

LevelVals(hp, lev) == [t \in DOMAIN lev |-> [l \in DOMAIN lev[t] |-> hp[lev[t][l]]]]

InitUniverses ==
  /\ heap = <<>>
  /\ seedRef = [u \in Universes |-> 0]
  /\ dim = [u \in Universes |-> 0]
  /\ modelType = [u \in Universes |-> ""]
  /\ systemType = [u \in Universes |-> ""]
  /\ history = [u \in Universes |-> <<>>]
  /\ levels = [u \in Universes |-> EmptyMap]
  /\ running = Idle
  /\ lastOp = Op("init", 0, 0, 0, 0, FALSE, <<>>)
  /\ ret = NoRet
  /\ runResult = [u \in Universes |-> NoResult]
  /\ nRetro = 0

\* ------------------------------------------------------------- the page
\* A string is a sequence of characters (one-character strings)
Digits == <<"0", "1", "2", "3", "4", "5", "6", "7", "8", "9">>

IsDigit(c) == \E d \in 1..10 : Digits[d] = c

DigitValue(c) == (CHOOSE d \in 1..10 : Digits[d] = c) - 1

NaN == [nan |-> TRUE, n |-> 0]

Num(n) == [nan |-> FALSE, n |-> n]

\* The digits of str from position i on, up to the first other character
RECURSIVE parseDigits(_, _, _)
parseDigits(str, i, acc) ==
  IF i > Len(str) \/ ~IsDigit(str[i]) THEN acc
  ELSE parseDigits(str, i + 1, 10 * acc + DigitValue(str[i]))

\* The white space and line terminator characters parseInt skips.  A
\* character outside ASCII is written as its escape: "\\u00a0" is U+00A0.
WhiteSpace ==
  {" ", "\t", "\n", "\f", "\r", "", "\\v", "\\u000b", "\\u00a0", "\\u1680",
   "\\u2000", "\\u2001", "\\u2002", "\\u2003", "\\u2004", "\\u2005",
   "\\u2006", "\\u2007", "\\u2008", "\\u2009", "\\u200a", "\\u2028",
   "\\u2029", "\\u202f", "\\u205f", "\\u3000", "\\ufeff"}

RECURSIVE skipSpaces(_, _)
skipSpaces(str, i) ==
  IF i <= Len(str) /\ str[i] \in WhiteSpace THEN skipSpaces(str, i + 1) ELSE i

\* parseInt(str, 10): leading white space, a sign, then digits; NaN if none
parseInt(str) ==
  LET i == skipSpaces(str, 1)
      signed == i <= Len(str) /\ str[i] \in {"-", "+"}
      j == IF signed THEN i + 1 ELSE i
  IN  IF j > Len(str) \/ ~IsDigit(str[j]) THEN NaN
      ELSE IF signed /\ str[i] = "-" THEN Num(0 - parseDigits(str, j, 0))
      ELSE Num(parseDigits(str, j, 0))

\* String(n) for an integer n
RECURSIVE natToString(_)
natToString(n) ==
  IF n < 10 THEN <<Digits[n + 1]>>
  ELSE Append(natToString(n \div 10), Digits[(n % 10) + 1])

toString(n) == IF n < 0 THEN <<"-">> \o natToString(0 - n) ELSE natToString(n)

\* clampInt(value, min, max, fallback)
clampInt(value, min, max, fallback) ==
  LET n == parseInt(value)
  IN  IF n.nan THEN fallback ELSE Min2(max, Max2(min, n.n))

Fields == {"param-steps", "param-max-levels", "param-t0", "param-t1",
           "param-level", "param-dim"}

\* document.getElementById(id): null, or an element with its .value
Absent == [present |-> FALSE, value |-> <<>>]

Element(str) == [present |-> TRUE, value |-> str]

\* getParameters(): the integer parameters it returns, and the page after
\* it wrote t0 and t1 back into their input elements
getParameters(in) ==
  LET stepsEl == in["param-steps"]
      levelsEl == in["param-max-levels"]
      t0El == in["param-t0"]
      t1El == in["param-t1"]
      levelEl == in["param-level"]
      dimEl == in["param-dim"]
      steps == IF stepsEl.present THEN clampInt(stepsEl.value, 10, 500, 120) ELSE 120
      maxLevels == IF levelsEl.present THEN clampInt(levelsEl.value, 5, 100, 60) ELSE 60
      t0 == IF t0El.present THEN clampInt(t0El.value, 0, steps - 1, 30) ELSE 30
      t1a == IF t1El.present THEN clampInt(t1El.value, 1, steps - 1, 90) ELSE 90
      t1 == IF t1a <= t0 THEN Min2(steps - 1, t0 + 1) ELSE t1a
      obsLevel == IF levelEl.present THEN clampInt(levelEl.value, 0, maxLevels - 1, 10)
                  ELSE 10
      d == IF dimEl.present THEN clampInt(dimEl.value, 2, 40, DEFAULT_DIM)
           ELSE DEFAULT_DIM
  IN  [params |-> [valid |-> TRUE, steps |-> steps, maxLevels |-> maxLevels,
                   t0 |-> t0, t1 |-> t1, obsLevel |-> obsLevel, dim |-> d],
       inputs |-> [f \in Fields |->
                     IF f = "param-t0" /\ t0El.present THEN Element(toString(t0))
                     ELSE IF f = "param-t1" /\ t1El.present THEN Element(toString(t1))
                     ELSE in[f]]]

NoParams == [valid |-> FALSE, steps |-> 0, maxLevels |-> 0, t0 |-> 0, t1 |-> 0,
             obsLevel |-> 0, dim |-> 0]

NoEnsemble == [active |-> FALSE, i |-> 0, count |-> 0, sumInf |-> 0,
               sumDelta |-> 0, sumInfSq |-> 0, p |-> <<>>]

NoStats == [valid |-> FALSE, count |-> 0, sumInf |-> 0, sumInfSq |-> 0,
            meanInf |-> 0, meanDelta |-> 0, varInf |-> 0]

InitStats ==
  /\ ensemble = NoEnsemble
  /\ stats = NoStats

NoSim == [done |-> FALSE, threw |-> FALSE, before |-> "none", inf |-> "none",
          obs |-> "none"]

\* The page once attachControlsAndRun has returned: no timer yet, and the
\* first window.runUniverseSimulation() call has requested an animation frame
InitPage(hasAuto, hasBtn) ==
  /\ sim = NoSim
  /\ autoEl = [present |-> hasAuto, checked |-> FALSE]
  /\ runBtn = [present |-> hasBtn, disabled |-> hasBtn]
  /\ autoRunHandle = 0
  /\ loopTimers = {}
  /\ rafs = 1
  /\ simTimers = 0
  /\ nextTimer = 1

\* A page without the input elements
Init ==
  /\ InitUniverses
  /\ InitStats
  /\ InitPage(FALSE, FALSE)
  /\ inputs = [f \in Fields |-> Absent]
  /\ params = NoParams

\* ------------------------------------------------------- LivingUniverse
\* constructor: the fields it sets; seed = 0 stands for an omitted seed
constructor(hp, d, mt, st, seed, rnd) ==
  LET thisDim == IF d = 0 THEN DEFAULT_DIM ELSE d
      hp1 == IF seed = 0 THEN Append(hp, randVec(thisDim, rnd)) ELSE hp
      s == IF seed = 0 THEN Len(hp1) ELSE seed
  IN  [heap |-> hp1,
       dim |-> thisDim,
       modelType |-> IF mt = "" THEN "nonlinear" ELSE mt,
       systemType |-> IF st = "" THEN "isolated" ELSE st,
       history |-> <<s>>,
       levels |-> EmptyMap]

\* The element of a set of one element; Only({e : x \in {v}}) is e for the
\* constant x = v, with v computed once
Only(S) == CHOOSE y \in S : TRUE

\* evolve(prev, memory, level): prev and memory are references; a TypeError
\* is thrown where the code calls .map or .length on undefined
evolve(hp, mt, st, prev, memory, level, rnd) ==
  IF mt = "oscillators"
  THEN IF prev = 0 THEN Thrown ELSE Value(evolveOscillators(hp[prev], st, rnd))
  ELSE IF mt = "ising"
  THEN IF prev = 0 THEN Thrown ELSE Value(evolveIsing(hp[prev], st, rnd))
  ELSE IF prev = 0 \/ memory = 0 THEN Thrown
  ELSE LET A == sinVec(hp[prev])
           B == cosVec(hp[memory])
           alpha == SC \div (1 + level)
       IN  Value(blendVec(A, B, alpha))

WriteEv(t, l) == [kind |-> "write", t |-> t, l |-> l, ok |-> TRUE]

ReadEv(t, l, ok) == [kind |-> "read", t |-> t, l |-> l, ok |-> ok]

\* The for loop of step, from `level` on; lev[t] holds the levels below
RECURSIVE stepLevels(_, _, _, _, _, _, _, _, _)
stepLevels(hp, hist, lev, mt, st, t, level, maxLevel, acc) ==
  IF level >= maxLevel
  THEN [heap |-> hp, history |-> hist, levels |-> lev, threw |-> FALSE,
        log |-> acc.log]
  ELSE
    LET prev_layer == lev[t][level - 1]
        noRow == t > 1 /\ (t - 1) \notin DOMAIN lev
        mem_layer == IF t > 1
                     THEN IF noRow THEN 0
                          ELSE IF (level - 1) \in DOMAIN lev[t - 1]
                               THEN lev[t - 1][level - 1] ELSE 0
                     ELSE prev_layer
        log1 == IF t > 1
                THEN Append(acc.log, ReadEv(t - 1, level - 1, mem_layer # 0))
                ELSE acc.log
    IN  Only({IF state.threw
              THEN [heap |-> hp, history |-> hist, levels |-> lev, threw |-> TRUE,
                    log |-> log1]
              ELSE Only({stepLevels(n.heap, hist, n.levels, mt, st, t, level + 1,
                                    maxLevel, n.acc) :
                         n \in {[heap |-> Append(hp, state.v),
                                 levels |-> [lev EXCEPT
                                               ![t] = Put(lev[t], level, Len(hp) + 1)],
                                 acc |-> [rnd |-> acc.rnd,
                                          log |-> Append(log1, WriteEv(t, level))]]}}) :
              state \in {IF noRow THEN Thrown
                         ELSE evolve(hp, mt, st, prev_layer, mem_layer, level,
                                     acc.rnd[level])}})

\* A slip: this.history[t] = base_now in place of the push
pushHistory_atIndex(hist, t, ref) ==
  IF t < Len(hist) THEN [hist EXCEPT ![t + 1] = ref] ELSE Append(hist, ref)

\* this.history.push(base_now)
pushHistory(hist, t, ref) == Append(hist, ref)

\* step(t, maxLevel)
step(hp, hist, lev, mt, st, t, maxLevel, rnd) ==
  IF t = 0
  THEN [heap |-> hp, history |-> hist, levels |-> lev, threw |-> FALSE, log |-> <<>>]
  ELSE
    LET lev0 == Put(lev, t, EmptyMap)
        prev == IF t - 1 < Len(hist) THEN hist[t] ELSE 0
        mem == IF t > 1 THEN (IF t - 2 < Len(hist) THEN hist[t - 1] ELSE 0) ELSE prev
    IN  Only({IF base_now.threw
              THEN [heap |-> hp, history |-> hist, levels |-> lev0, threw |-> TRUE,
                    log |-> <<>>]
              ELSE Only({stepLevels(n.heap, n.history, n.levels, mt, st, t, 1,
                                    maxLevel, [rnd |-> rnd, log |-> <<WriteEv(t, 0)>>]) :
                         n \in {[heap |-> Append(hp, base_now.v),
                                 history |-> pushHistory(hist, t, Len(hp) + 1),
                                 levels |-> [lev0 EXCEPT
                                               ![t] = Put(lev0[t], 0, Len(hp) + 1)]]}}) :
              base_now \in {evolve(hp, mt, st, prev, mem, 0, rnd[0])}})

\* get_state(t, level): a reference, undefined, or a TypeError
get_state(hist, lev, t, level) ==
  IF level = 0
  THEN IF t < Len(hist)
       THEN [kind |-> "value", ref |-> hist[t + 1]]
       ELSE [kind |-> "undefined", ref |-> 0]
  ELSE IF t \notin DOMAIN lev
       THEN [kind |-> "throw", ref |-> 0]
       ELSE IF level \in DOMAIN lev[t]
            THEN [kind |-> "value", ref |-> lev[t][level]]
            ELSE [kind |-> "undefined", ref |-> 0]

SetMin(S) == CHOOSE x \in S : \A y \in S : x <= y

\* The loop of infinite_state over the sorted keys of levelMap.  s[j] is
\* undefined past the end of s, and acc[j] is NaN from then on: nan is the set
\* of these j, and acc holds the other components.
RECURSIVE accumulate(_, _, _, _, _, _)
accumulate(hp, levelMap, keys, acc, nan, d) ==
  IF keys = {} THEN [j \in 1..d |-> IF j \in nan THEN NaN ELSE acc[j]]
  ELSE LET i == SetMin(keys)
           s == hp[levelMap[i]]
           w == SC \div (i + 1)
           nan1 == nan \cup {j \in 1..d : j > Len(s)}
       IN  accumulate(hp, levelMap, keys \ {i},
                      [j \in 1..d |-> IF j \in nan1 THEN 0 ELSE acc[j] + Mul(s[j], w)],
                      nan1, d)

\* Object.keys(levelMap).map(k => parseInt(k, 10)): every level key recorded
levelKeys(levelMap) == DOMAIN levelMap

\* infinite_state(t): the vector returned, or the RangeError of zeros
infinite_state(hp, lev, d, t) ==
  LET acc == zeros(d)
      levelMap == IF t \in DOMAIN lev THEN lev[t] ELSE EmptyMap
  IN  IF d < 0 THEN Thrown
      ELSE Value(accumulate(hp, levelMap, levelKeys(levelMap), acc, {}, d))

\* A slip: the bounds test written with > in place of >=
outOfRange_strict(t, len) == t > len

\* t_future >= universe.history.length, t_past >= universe.history.length
outOfRange(t, len) == t >= len

\* A slip: the difference to the past state left out of the delta
retroDelta_noDifference(future_state, past_state, strength) ==
  scaleVec(future_state, strength)

\* const delta = scaleVec(subVec(future_state, past_state), strength)
retroDelta(future_state, past_state, strength) ==
  scaleVec(subVec(future_state, past_state), strength)

\* A slip: the past state array updated in place, history[t_past][j] += delta[j]
writeSlot_inPlace(hp, hist, t_past, vec) ==
  [heap |-> [hp EXCEPT ![hist[t_past + 1]] = vec], history |-> hist]

\* universe.history[t_past] = <the new array vec>
writeSlot(hp, hist, t_past, vec) ==
  [heap |-> Append(hp, vec),
   history |-> [hist EXCEPT ![t_past + 1] = Len(hp) + 1]]

\* retro_influence(universe, t_future, t_past, strength); subVec and addVec
\* throw a TypeError on an undefined operand
retro_influence(hp, hist, lev, t_future, t_past, strength) ==
  IF outOfRange(t_future, Len(hist)) \/ outOfRange(t_past, Len(hist))
  THEN [heap |-> hp, history |-> hist, threw |-> FALSE]
  ELSE LET future_state == get_state(hist, lev, t_future, 0).ref
           past_state == IF t_past < Len(hist) THEN hist[t_past + 1] ELSE 0
       IN  IF future_state = 0 \/ past_state = 0
           THEN [heap |-> hp, history |-> hist, threw |-> TRUE]
           ELSE LET delta == retroDelta(hp[future_state], hp[past_state], strength)
                    w == writeSlot(hp, hist, t_past, addVec(hp[past_state], delta))
                IN  [heap |-> w.heap, history |-> w.history, threw |-> FALSE]

\* ------------------------------------------------------------ ensemble
\* Math.sqrt on fixed point values: the largest r with r*r <= n, by bisection
RECURSIVE ISqrt(_, _, _)
ISqrt(n, lo, hi) ==
  IF lo >= hi THEN lo
  ELSE LET mid == (lo + hi + 1) \div 2
       IN  IF mid * mid <= n THEN ISqrt(n, mid, hi) ELSE ISqrt(n, lo, mid - 1)

\* A power of two above the root of n
RECURSIVE RootBound(_, _)
RootBound(n, b) == IF b * b > n THEN b ELSE RootBound(n, 2 * b)

\* Math.sqrt(x2) for a product x2 of two fixed point values, not yet scaled
\* down: (a * SC) * (a * SC) has the root a * SC
Sqrt(x2) == ISqrt(x2, 0, RootBound(x2, 1))

\* acc after the first n components: the squares are kept in full
RECURSIVE sumSquares(_, _)
sumSquares(v, n) == IF n = 0 THEN 0 ELSE sumSquares(v, n - 1) + v[n] * v[n]

\* norm(v)
norm(v) == Sqrt(sumSquares(v, Len(v)))

\* run(steps, maxLevel) from its loop variable t on; every step takes the
\* draws rnd
RECURSIVE runLoop(_, _, _, _, _, _, _, _, _)
runLoop(hp, hist, lev, mt, st, t, steps, maxLevel, rnd) ==
  IF t >= steps
  THEN [heap |-> hp, history |-> hist, levels |-> lev, threw |-> FALSE]
  ELSE Only({IF r.threw
             THEN [heap |-> r.heap, history |-> r.history, levels |-> r.levels,
                   threw |-> TRUE]
             ELSE runLoop(r.heap, r.history, r.levels, mt, st, t + 1, steps,
                          maxLevel, rnd) :
             r \in {step(hp, hist, lev, mt, st, t, maxLevel, rnd)}})

\* new LivingUniverse(dim, modelType, systemType) with the draws seedRnd,
\* then run(steps, maxLevel)
constructAndRun(d, mt, st, steps, maxLevel, seedRnd, rnd) ==
  Only({Only({[heap |-> U.heap, history |-> U.history, levels |-> U.levels,
               threw |-> U.threw, dim |-> c.dim] :
              U \in {runLoop(c.heap, c.history, c.levels, c.modelType,
                             c.systemType, 1, steps, maxLevel, rnd)}}) :
        c \in {constructor(<<>>, d, mt, st, 0, seedRnd)}})

\* The body of the loop of updateMultiverseStats for one universe: the norm
\* of its infinite state and the change of the norm at t0; norm(undefined)
\* throws a TypeError
ensembleSample(p, seedRnd, rnd) ==
  Only({Only({LET before == get_state(U.history, U.levels, p.t0, 0)
                  after == get_state(r.history, U.levels, p.t0, 0)
                  inf_state == infinite_state(r.heap, U.levels, U.dim, p.t0)
              IN  IF U.threw \/ before.kind # "value" \/ r.threw
                     \/ after.kind # "value" \/ inf_state.threw
                  THEN [threw |-> TRUE, inf |-> 0, delta |-> 0]
                  ELSE [threw |-> FALSE,
                        inf |-> norm(inf_state.v),
                        delta |-> norm(r.heap[after.ref]) - norm(U.heap[before.ref])] :
              r \in {retro_influence(U.heap, U.history, U.levels, p.t1, p.t0,
                                     p.strength)}}) :
        U \in {constructAndRun(p.dim, p.modelType, p.systemType, p.steps,
                               p.maxLevels, seedRnd, rnd)}})

\* A slip: the difference reported without the clamp at zero
variance_unclamped(sumInfSq, meanInf, count) ==
  (sumInfSq \div count) - Mul(meanInf, meanInf)

\* Math.max(0, sumInfSq / count - meanInf * meanInf)
variance(sumInfSq, meanInf, count) ==
  Max2(0, (sumInfSq \div count) - Mul(meanInf, meanInf))

\* ---------------------------------------------------- browser simulation
\* strength with no param-strength element: 0.02
DefaultStrength == SC \div 50

\* The reads of runBrowserSimulation on the universe it constructs and runs:
\* get_state(t0), infinite_state(t0) and Observer(U, obsLevel).perceive(t0).
\* Each is "value", "undefined" or "throw", or "skipped" when an earlier
\* statement threw; norm(undefined) throws a TypeError.
simulationReads(p, mt, st, seedRnd, rnd) ==
  Only({Only({LET state_before == get_state(U.history, U.levels, p.t0, 0)
                  state_after == get_state(r.history, U.levels, p.t0, 0)
                  obs_state == get_state(r.history, U.levels, p.t0, p.obsLevel)
                  inf_state == infinite_state(r.heap, U.levels, U.dim, p.t0)
              IN  IF U.threw
                  THEN [threw |-> TRUE, before |-> "skipped", inf |-> "skipped",
                        obs |-> "skipped"]
                  ELSE IF state_before.kind # "value" \/ r.threw
                          \/ state_after.kind # "value"
                  THEN [threw |-> TRUE, before |-> state_before.kind,
                        inf |-> "skipped", obs |-> "skipped"]
                  ELSE IF inf_state.threw
                  THEN [threw |-> TRUE, before |-> "value", inf |-> "throw",
                        obs |-> "skipped"]
                  ELSE [threw |-> obs_state.kind # "value", before |-> "value",
                        inf |-> "value", obs |-> obs_state.kind] :
              r \in {retro_influence(U.heap, U.history, U.levels, p.t1, p.t0,
                                     DefaultStrength)}}) :
        U \in {constructAndRun(p.dim, mt, st, p.steps, p.maxLevels, seedRnd, rnd)}})

\* autoRun of getParameters: !!(autoEl && autoEl.checked)
autoRun(el) == el.present /\ el.checked

\* A slip: a loop started whenever auto-run is on
startsLoop_always(auto, handle) == auto

\* if (autoRun && !autoRunHandle)
startsLoop(auto, handle) == auto /\ handle = 0

\* window.runUniverseSimulation(): the button is disabled and an animation
\* frame requested, whose callback sets the 220 ms timeout
runUniverseSimulation(btn, frames) ==
  [runBtn |-> IF btn.present THEN [btn EXCEPT !.disabled = TRUE] ELSE btn,
   rafs |-> frames + 1]

\* loop(): with auto-run off the handle is reset; otherwise a simulation is
\* requested and the next loop timer set
loop(auto, handle, timers, btn, frames, next) ==
  IF ~auto
  THEN [autoRunHandle |-> 0, loopTimers |-> timers, runBtn |-> btn,
        rafs |-> frames, nextTimer |-> next]
  ELSE LET w == runUniverseSimulation(btn, frames)
       IN  [autoRunHandle |-> next, loopTimers |-> timers \cup {next},
            runBtn |-> w.runBtn, rafs |-> w.rafs, nextTimer |-> next + 1]

\* --------------------------------------------------------------- actions
\* Arguments callers pass
DimArgs == {Dim}
Times == 0..MaxT
LevelArgs == 0..MaxLevel
MaxLevelArgs == 1..MaxLevel
\* history holds at most MaxHist entries
MaxHist == MaxT
StepsArgs == 0..MaxHist

\* new LivingUniverse(d, mt, st, seed) with a seed array the caller built,
\* or new LivingUniverse(d, mt, st) with the seed omitted; lastOp.a is d
ConstructWith(u, dims, systems, seeds, draws) ==
  /\ ~running.active
  /\ history[u] = <<>>
  /\ \E d \in dims, mt \in ModelTypes, st \in systems :
       /\ \/ \E sv \in seeds :
               LET hp1 == Append(heap, sv)
                   c == constructor(hp1, d, mt, st, Len(hp1), <<>>)
               IN  /\ heap' = c.heap
                   /\ seedRef' = [seedRef EXCEPT ![u] = Len(hp1)]
                   /\ dim' = [dim EXCEPT ![u] = c.dim]
                   /\ modelType' = [modelType EXCEPT ![u] = c.modelType]
                   /\ systemType' = [systemType EXCEPT ![u] = c.systemType]
                   /\ history' = [history EXCEPT ![u] = c.history]
                   /\ levels' = [levels EXCEPT ![u] = c.levels]
          \/ \E rnd \in draws :
               LET c == constructor(heap, d, mt, st, 0, rnd)
               IN  /\ heap' = c.heap
                   /\ seedRef' = [seedRef EXCEPT ![u] = 0]
                   /\ dim' = [dim EXCEPT ![u] = c.dim]
                   /\ modelType' = [modelType EXCEPT ![u] = c.modelType]
                   /\ systemType' = [systemType EXCEPT ![u] = c.systemType]
                   /\ history' = [history EXCEPT ![u] = c.history]
                   /\ levels' = [levels EXCEPT ![u] = c.levels]
       /\ lastOp' = Op("construct", u, d, 0, 0, FALSE, <<>>)
  /\ ret' = NoRet
  /\ UNCHANGED uiVars
  /\ UNCHANGED <<running, runResult, nRetro>>

\* The same with a dim of DimArgs
Construct(u, systems, seeds, draws) ==
  ConstructWith(u, DimArgs, systems, seeds, draws)

\* A second universe built with the arguments of universe 1 and the same
\* explicit seed: the very same array object, or a copy of it
ConstructTwin(u) ==
  /\ ~running.active
  /\ history[u] = <<>>
  /\ history[1] # <<>>
  /\ seedRef[1] # 0
  /\ \E share \in BOOLEAN :
       LET hp1 == IF share THEN heap ELSE Append(heap, heap[seedRef[1]])
           seed == IF share THEN seedRef[1] ELSE Len(hp1)
           c == constructor(hp1, dim[1], modelType[1], systemType[1], seed, <<>>)
       IN  /\ heap' = c.heap
           /\ seedRef' = [seedRef EXCEPT ![u] = seed]
           /\ dim' = [dim EXCEPT ![u] = c.dim]
           /\ modelType' = [modelType EXCEPT ![u] = c.modelType]
           /\ systemType' = [systemType EXCEPT ![u] = c.systemType]
           /\ history' = [history EXCEPT ![u] = c.history]
           /\ levels' = [levels EXCEPT ![u] = c.levels]
  /\ lastOp' = Op("construct", u, 0, 0, 0, FALSE, <<>>)
  /\ ret' = NoRet
  /\ UNCHANGED uiVars
  /\ UNCHANGED <<running, runResult, nRetro>>

\* U.step(t, maxLevel) called directly
StepCall(u, t, maxLevel) ==
  /\ ~running.active
  /\ history[u] # <<>>
  /\ t = 0 \/ Len(history[u]) < MaxHist
  /\ \E rnd \in StepDraws(systemType[u]) :
       \E r \in {step(heap, history[u], levels[u], modelType[u], systemType[u],
                     t, maxLevel, rnd)} :
           /\ heap' = r.heap
           /\ history' = [history EXCEPT ![u] = r.history]
           /\ levels' = [levels EXCEPT ![u] = r.levels]
           /\ lastOp' = Op("step", u, t, maxLevel, 0, r.threw, r.log)
  /\ ret' = NoRet
  /\ UNCHANGED uiVars
  /\ UNCHANGED <<seedRef, dim, modelType, systemType, running, runResult, nRetro>>

\* U.run(steps, maxLevel) is entered: let t = 1
RunBegin(u, steps, maxLevel) ==
  /\ ~running.active
  /\ history[u] # <<>>
  /\ Len(history[u]) + Max2(steps - 1, 0) <= MaxHist
  /\ running' = [active |-> TRUE, u |-> u, t |-> 1, steps |-> steps,
                 maxLevel |-> maxLevel,
                 fresh |-> (Len(history[u]) = 1 /\ DOMAIN levels[u] = {})]
  /\ lastOp' = Op("run_begin", u, steps, maxLevel, 0, FALSE, <<>>)
  /\ ret' = NoRet
  /\ UNCHANGED uiVars
  /\ UNCHANGED <<heap, seedRef, dim, modelType, systemType, history, levels,
                 runResult, nRetro>>

\* One iteration of the loop of run: this.step(t, maxLevel); t++
RunStep ==
  /\ running.active
  /\ running.t < running.steps
  /\ LET u == running.u IN
     \E rnd \in StepDraws(systemType[u]) :
       \E r \in {step(heap, history[u], levels[u], modelType[u], systemType[u],
                     running.t, running.maxLevel, rnd)} :
           /\ heap' = r.heap
           /\ history' = [history EXCEPT ![u] = r.history]
           /\ levels' = [levels EXCEPT ![u] = r.levels]
           /\ lastOp' = Op("step", u, running.t, running.maxLevel, 1, r.threw, r.log)
           /\ running' = IF r.threw THEN Idle
                         ELSE [running EXCEPT !.t = running.t + 1]
  /\ ret' = NoRet
  /\ UNCHANGED uiVars
  /\ UNCHANGED <<seedRef, dim, modelType, systemType, runResult, nRetro>>

\* The loop of run ends (t < steps is false) and run returns
RunReturn(record) ==
  /\ running.active
  /\ running.t >= running.steps
  /\ LET u == running.u IN
       /\ runResult' = IF ~record THEN runResult ELSE
                        [runResult EXCEPT ![u] =
                          [done |-> TRUE, steps |-> running.steps,
                           maxLevel |-> running.maxLevel, fresh |-> running.fresh,
                           threw |-> FALSE,
                           history |-> HistVals(heap, history[u]),
                           levels |-> LevelVals(heap, levels[u])]]
       /\ lastOp' = Op("run", u, running.steps, running.maxLevel,
                       IF running.fresh THEN 1 ELSE 0, FALSE, <<>>)
  /\ running' = Idle
  /\ ret' = NoRet
  /\ UNCHANGED uiVars
  /\ UNCHANGED <<heap, seedRef, dim, modelType, systemType, history, levels, nRetro>>

\* retro_influence(U, t_future, t_past, strength). lastOp.log lists the
\* changes made to history[t_past] by the calls made in a row with these
\* arguments, this one last.
RetroCall(u, t_future, t_past, strength) ==
  /\ ~running.active
  /\ history[u] # <<>>
  /\ nRetro < MaxRetro
  /\ \E r \in {retro_influence(heap, history[u], levels[u], t_future, t_past, strength)} :
       LET inRange == t_past < Len(history[u])
           change == IF inRange
                     THEN subVec(r.heap[r.history[t_past + 1]],
                                 heap[history[u][t_past + 1]])
                     ELSE zeros(dim[u])
           repeated == /\ lastOp.op = "retro" /\ lastOp.u = u
                       /\ lastOp.a = t_future /\ lastOp.b = t_past
                       /\ lastOp.c = strength
       IN  /\ heap' = r.heap
           /\ history' = [history EXCEPT ![u] = r.history]
           /\ lastOp' = Op("retro", u, t_future, t_past, strength, r.threw,
                           IF repeated THEN Append(lastOp.log, change)
                           ELSE <<change>>)
  /\ nRetro' = nRetro + 1
  /\ ret' = NoRet
  /\ UNCHANGED uiVars
  /\ UNCHANGED <<seedRef, dim, modelType, systemType, levels, running, runResult>>

Returned(heapNow, g) ==
  [kind |-> g.kind, ref |-> g.ref,
   vec |-> IF g.kind = "value" THEN heapNow[g.ref] ELSE <<>>]

\* U.get_state(t, level)
GetStateCall(u, t, level) ==
  /\ ~running.active
  /\ history[u] # <<>>
  /\ LET g == get_state(history[u], levels[u], t, level)
     IN  /\ ret' = Returned(heap, g)
         /\ lastOp' = Op("get_state", u, t, level, 0, g.kind = "throw", <<>>)
  /\ UNCHANGED uiVars
  /\ UNCHANGED <<heap, seedRef, dim, modelType, systemType, history, levels,
                 running, runResult, nRetro>>

\* new Observer(U, level).perceive(t)
PerceiveCall(u, level, t) ==
  /\ ~running.active
  /\ history[u] # <<>>
  /\ LET g == get_state(history[u], levels[u], t, level)
     IN  /\ ret' = Returned(heap, g)
         /\ lastOp' = Op("perceive", u, t, level, 0, g.kind = "throw", <<>>)
  /\ UNCHANGED uiVars
  /\ UNCHANGED <<heap, seedRef, dim, modelType, systemType, history, levels,
                 running, runResult, nRetro>>

\* U.infinite_state(t)
InfiniteStateCall(u, t) ==
  /\ ~running.active
  /\ history[u] # <<>>
  /\ LET r == infinite_state(heap, levels[u], dim[u], t)
     IN  /\ ret' = [kind |-> IF r.threw THEN "throw" ELSE "value", ref |-> 0,
                    vec |-> r.v]
         /\ lastOp' = Op("infinite_state", u, t, 0, 0, r.threw, <<>>)
  /\ UNCHANGED uiVars
  /\ UNCHANGED <<heap, seedRef, dim, modelType, systemType, history, levels,
                 running, runResult, nRetro>>

\* One outcome of the draws of randVec(Dim)
OneDraw == {[i \in 1..Dim |-> IF i % 2 = 1 THEN (3 * SC) \div 4 ELSE SC \div 4]}

\* Universe u is as its constructor left it
Fresh(u) == Len(history[u]) = 1 /\ DOMAIN levels[u] = {}

\* One universe advanced by step and run, called in any order
NextStep ==
  \/ Construct(1, {"isolated"}, SeedVecs, OneDraw)
  \/ \E t \in Times, maxLevel \in MaxLevelArgs :
       t <= Len(history[1]) + 1 /\ StepCall(1, t, maxLevel)
  \/ \E steps \in StepsArgs, maxLevel \in MaxLevelArgs :
       Fresh(1) /\ RunBegin(1, steps, maxLevel)
  \/ RunStep
  \/ RunReturn(FALSE)

SpecStep == Init /\ [][NextStep]_vars

\* One universe advanced by one run, then perturbed by one call or by two
\* calls with the same arguments
NextRetro ==
  \/ Construct(1, {"isolated"}, SeedVecs, OneDraw)
  \/ \E steps \in StepsArgs, maxLevel \in MaxLevelArgs :
       Fresh(1) /\ nRetro = 0 /\ RunBegin(1, steps, maxLevel)
  \/ RunStep
  \/ RunReturn(FALSE)
  \/ \E tf \in Times, tp \in Times, s \in Strengths :
       /\ \/ nRetro = 0
          \/ (lastOp.op = "retro" /\ lastOp.a = tf /\ lastOp.b = tp /\ lastOp.c = s)
       /\ RetroCall(1, tf, tp, s)

SpecRetro == Init /\ [][NextRetro]_vars

\* One universe advanced by one run, then read
NextRead ==
  \/ Construct(1, {"isolated"}, SeedVecs, OneDraw)
  \/ \E steps \in StepsArgs, maxLevel \in MaxLevelArgs :
       Fresh(1) /\ RunBegin(1, steps, maxLevel)
  \/ RunStep
  \/ RunReturn(FALSE)
  \/ \E t \in Times, level \in LevelArgs : GetStateCall(1, t, level)
  \/ \E t \in Times, level \in LevelArgs : PerceiveCall(1, level, t)
  \/ \E t \in Times : InfiniteStateCall(1, t)

SpecRead == Init /\ [][NextRead]_vars


\* Two universes built with the same arguments and the same explicit seed,
\* each advanced by one run with the same steps and maxLevel; universe 1 may
\* be perturbed once, at any time outside a run
NextPair ==
  \/ Construct(1, SystemTypes, SeedVecs, {})
  \/ ConstructTwin(2)
  \/ \E u \in Universes, steps \in StepsArgs, maxLevel \in MaxLevelArgs :
       /\ Fresh(u)
       /\ ~runResult[u].done
       /\ \A v \in Universes :
            runResult[v].done =>
              (runResult[v].steps = steps /\ runResult[v].maxLevel = maxLevel)
       /\ RunBegin(u, steps, maxLevel)
  \/ RunStep
  \/ RunReturn(TRUE)
  \/ \E tf \in Times, tp \in Times :
       nRetro = 0 /\ RetroCall(1, tf, tp, SC \div 2)

SpecPair == Init /\ [][NextPair]_vars

\* Characters the user types, and the strings of at most MaxStr of them
Alphabet == {"1", "-", "x"}

RECURSIVE StringsOf(_)
StringsOf(n) ==
  IF n = 0 THEN {<<>>}
  ELSE LET shorter == StringsOf(n - 1)
       IN  shorter \cup {Append(w, c) : w \in {v \in shorter : Len(v) = n - 1},
                                         c \in Alphabet}

\* The input elements the user edits here
EditedFields == {"param-steps", "param-t0", "param-t1"}

\* The page as loaded: each of the edited elements is there, empty, or is not
InitParams ==
  /\ InitUniverses
  /\ InitStats
  /\ InitPage(FALSE, FALSE)
  /\ inputs \in {in \in [Fields -> {Absent, Element(<<>>)}] :
                   \A f \in Fields \ EditedFields : in[f] = Absent}
  /\ params = NoParams

\* The user types str into the input element f.  The input listener of
\* param-level then calls getParameters(), which writes t0 and t1 back.
SetInput(f, str) ==
  /\ inputs[f].present
  /\ LET typed == [inputs EXCEPT ![f] = Element(str)]
         g == getParameters(typed)
     IN  IF f = "param-level"
         THEN inputs' = g.inputs /\ params' = g.params
         ELSE inputs' = typed /\ UNCHANGED params
  /\ UNCHANGED pageVars
  /\ UNCHANGED <<heap, seedRef, dim, modelType, systemType, history, levels,
                 running, lastOp, ret, runResult, nRetro, ensemble, stats>>

\* A handler calls getParameters()
GetParametersCall ==
  /\ \E g \in {getParameters(inputs)} :
       /\ params' = g.params
       /\ inputs' = g.inputs
  /\ UNCHANGED pageVars
  /\ UNCHANGED <<heap, seedRef, dim, modelType, systemType, history, levels,
                 running, lastOp, ret, runResult, nRetro, ensemble, stats>>

\* The user fills in the form, and then handlers read it, once or again
NextParams ==
  \/ \E f \in EditedFields, str \in StringsOf(MaxStr) :
       ~params.valid /\ SetInput(f, str)
  \/ GetParametersCall

SpecParams == InitParams /\ [][NextParams]_vars

\* dim arguments a caller passes, valid or not
AnyDimArgs == {0 - 1, 0, 1, Dim}

\* The draws of a randVec call of up to DEFAULT_DIM components
SeedDraws ==
  {[i \in 1..DEFAULT_DIM |-> IF i % 2 = 1 THEN a ELSE b] :
     a \in RandVals, b \in RandVals}

\* A universe constructed with any dim, with or without a seed, then
\* advanced and read
NextConstruct ==
  \/ ConstructWith(1, AnyDimArgs, SystemTypes, SeedVecs, SeedDraws)
  \/ StepCall(1, 1, 2)
  \/ GetStateCall(1, 0, 0)
  \/ \E t \in {0, 1} : InfiniteStateCall(1, t)

SpecConstruct == Init /\ [][NextConstruct]_vars

\* Parameter sets and ensemble sizes handed to updateMultiverseStats
EnsembleParams ==
  [steps : {2, MaxT}, maxLevels : {MaxLevel}, t0 : {0, 1, MaxT}, t1 : {1, 2},
   strength : {SC \div 2}, dim : {Dim}, modelType : ModelTypes,
   systemType : {"isolated", "open"}]

MaxCount == 3

\* updateMultiverseStats(enabled, count, params) is entered; with the mode
\* disabled or a count of 0 it returns at once and reports nothing
StatsBegin(enabled, count, p) ==
  /\ ~ensemble.active
  /\ IF ~enabled \/ count = 0
     THEN /\ stats' = NoStats
          /\ UNCHANGED ensemble
     ELSE /\ ensemble' = [active |-> TRUE, i |-> 0, count |-> count, sumInf |-> 0,
                          sumDelta |-> 0, sumInfSq |-> 0, p |-> p]
          /\ UNCHANGED stats
  /\ UNCHANGED pageVars
  /\ UNCHANGED <<heap, seedRef, dim, modelType, systemType, history, levels,
                 running, lastOp, ret, runResult, nRetro, inputs, params>>

\* One iteration of its loop: a fresh universe is run, perturbed and measured
StatsIterate ==
  /\ ensemble.active
  /\ ensemble.i < ensemble.count
  /\ \E seedRnd \in SeedDraws, rnd \in StepDraws(ensemble.p.systemType) :
       \E x \in {ensembleSample(ensemble.p, seedRnd, rnd)} :
          ensemble' = IF x.threw THEN NoEnsemble
                      ELSE [ensemble EXCEPT !.i = ensemble.i + 1,
                                            !.sumInf = ensemble.sumInf + x.inf,
                                            !.sumInfSq = ensemble.sumInfSq + Mul(x.inf, x.inf),
                                            !.sumDelta = ensemble.sumDelta + x.delta]
  /\ UNCHANGED pageVars
  /\ UNCHANGED <<heap, seedRef, dim, modelType, systemType, history, levels,
                 running, lastOp, ret, runResult, nRetro, inputs, params, stats>>

\* The loop has ended: the means and the variance are reported
StatsFinish ==
  /\ ensemble.active
  /\ ensemble.i >= ensemble.count
  /\ LET meanInf == ensemble.sumInf \div ensemble.count
         meanDelta == ensemble.sumDelta \div ensemble.count
     IN  stats' = [valid |-> TRUE, count |-> ensemble.count,
                   sumInf |-> ensemble.sumInf, sumInfSq |-> ensemble.sumInfSq,
                   meanInf |-> meanInf, meanDelta |-> meanDelta,
                   varInf |-> variance(ensemble.sumInfSq, meanInf, ensemble.count)]
  /\ ensemble' = NoEnsemble
  /\ UNCHANGED pageVars
  /\ UNCHANGED <<heap, seedRef, dim, modelType, systemType, history, levels,
                 running, lastOp, ret, runResult, nRetro, inputs, params>>

\* The ensemble runner called until it has reported its statistics
NextStats ==
  \/ \E enabled \in BOOLEAN, count \in 0..MaxCount, p \in EnsembleParams :
       ~stats.valid /\ StatsBegin(enabled, count, p)
  \/ StatsIterate
  \/ StatsFinish

SpecStats == Init /\ [][NextStats]_vars

\* Pending callbacks and timer ids are explored up to these numbers
MaxPending == 3
MaxTimer == 4

UniverseVars == <<heap, seedRef, dim, modelType, systemType, history, levels,
                  running, lastOp, ret, runResult, nRetro>>

\* A click on the run button (a disabled button fires no click)
ClickRun ==
  /\ runBtn.present /\ ~runBtn.disabled
  /\ rafs + simTimers < MaxPending
  /\ LET w == runUniverseSimulation(runBtn, rafs)
     IN  runBtn' = w.runBtn /\ rafs' = w.rafs
  /\ UNCHANGED UniverseVars
  /\ UNCHANGED <<inputs, params, ensemble, stats, sim, autoEl, autoRunHandle,
                 loopTimers, simTimers, nextTimer>>

\* The animation frame callback: setTimeout(..., 220)
RafCallback ==
  /\ rafs > 0
  /\ rafs' = rafs - 1
  /\ simTimers' = simTimers + 1
  /\ UNCHANGED UniverseVars
  /\ UNCHANGED <<inputs, params, ensemble, stats, sim, autoEl, runBtn,
                 autoRunHandle, loopTimers, nextTimer>>

\* The 220 ms callback: runBrowserSimulation(), then the button is enabled.
\* mt and st are the values of the model and system selects.  The multiverse
\* mode is off, so that updateMultiverseStats reports nothing.  An exception
\* ends the callback where it is thrown.
SimCallback(models, systems, seeds) ==
  /\ simTimers > 0
  /\ autoRun(autoEl) => nextTimer <= MaxTimer
  /\ \E g \in {getParameters(inputs)}, mt \in models, st \in systems :
       \E seedRnd \in seeds, rnd \in StepDrawsFor(st, g.params.maxLevels) :
         \E x \in {simulationReads(g.params, mt, st, seedRnd, rnd)} :
           /\ sim' = [done |-> TRUE, threw |-> x.threw, before |-> x.before,
                      inf |-> x.inf, obs |-> x.obs]
           /\ simTimers' = simTimers - 1
           /\ IF x.threw
              THEN /\ params' = g.params
                   /\ inputs' = g.inputs
                   /\ UNCHANGED <<stats, runBtn, autoRunHandle, loopTimers, rafs,
                                  nextTimer>>
              ELSE /\ stats' = NoStats
                   /\ runBtn' = [runBtn EXCEPT !.disabled = FALSE]
                   /\ IF startsLoop(autoRun(autoEl), autoRunHandle)
                      THEN LET p == getParameters(g.inputs)
                               l == loop(autoRun(autoEl), autoRunHandle, loopTimers,
                                         runBtn, rafs, nextTimer)
                           IN  /\ params' = p.params
                               /\ inputs' = p.inputs
                               /\ autoRunHandle' = l.autoRunHandle
                               /\ loopTimers' = l.loopTimers
                               /\ rafs' = l.rafs
                               /\ nextTimer' = l.nextTimer
                      ELSE /\ params' = g.params
                           /\ inputs' = g.inputs
                           /\ UNCHANGED <<autoRunHandle, loopTimers, rafs, nextTimer>>
  /\ UNCHANGED UniverseVars
  /\ UNCHANGED <<ensemble, autoEl>>

\* The user toggles the auto-run checkbox; its change handler runs
ToggleAuto ==
  /\ autoEl.present
  /\ autoEl.checked \/ rafs + simTimers < MaxPending
  /\ LET g == getParameters(inputs)
         el == [autoEl EXCEPT !.checked = ~autoEl.checked]
     IN  /\ autoEl' = el
         /\ params' = g.params
         /\ inputs' = g.inputs
         /\ IF ~autoRun(el) /\ autoRunHandle # 0
            THEN /\ loopTimers' = loopTimers \ {autoRunHandle}
                 /\ autoRunHandle' = 0
                 /\ UNCHANGED <<runBtn, rafs>>
            ELSE IF autoRun(el) /\ autoRunHandle = 0
            THEN LET w == runUniverseSimulation(runBtn, rafs)
                 IN  /\ runBtn' = w.runBtn
                     /\ rafs' = w.rafs
                     /\ UNCHANGED <<autoRunHandle, loopTimers>>
            ELSE UNCHANGED <<runBtn, rafs, autoRunHandle, loopTimers>>
  /\ UNCHANGED UniverseVars
  /\ UNCHANGED <<ensemble, stats, sim, simTimers, nextTimer>>

\* The loop timer id fires: loop()
LoopTimer(id) ==
  /\ id \in loopTimers
  /\ autoRun(autoEl) => (nextTimer <= MaxTimer /\ rafs + simTimers < MaxPending)
  /\ LET g == getParameters(inputs)
         l == loop(autoRun(autoEl), autoRunHandle, loopTimers \ {id}, runBtn, rafs,
                   nextTimer)
     IN  /\ params' = g.params
         /\ inputs' = g.inputs
         /\ autoRunHandle' = l.autoRunHandle
         /\ loopTimers' = l.loopTimers
         /\ runBtn' = l.runBtn
         /\ rafs' = l.rafs
         /\ nextTimer' = l.nextTimer
  /\ UNCHANGED UniverseVars
  /\ UNCHANGED <<ensemble, stats, sim, autoEl, simTimers>>

\* The number inputs with the values the user left in them
FormWith(t0, level) ==
  [f \in Fields |->
     IF f \in {"param-steps", "param-max-levels", "param-dim"} THEN Element(<<"1">>)
     ELSE IF f = "param-t0" THEN Element(t0)
     ELSE IF f = "param-level" THEN Element(level)
     ELSE Element(<<>>)]

\* The page with its number inputs and run button, without auto-run checkbox
InitSim ==
  /\ InitUniverses
  /\ InitStats
  /\ InitPage(FALSE, TRUE)
  /\ inputs = FormWith(<<>>, <<>>)
  /\ params = NoParams

\* The user sets t0 and the observer level, then simulations run
NextSim ==
  \/ \E f \in {"param-t0", "param-level"}, str \in StringsOf(MaxStr) :
       ~sim.done /\ SetInput(f, str)
  \/ ClickRun
  \/ RafCallback
  \/ SimCallback(ModelTypes, {"isolated", "open"}, OneDraw)

SpecSim == InitSim /\ [][NextSim]_vars

\* The page with its number inputs, run button and auto-run checkbox; with
\* t0 = 1 the simulation completes, with t0 = 0 its perceive call throws
InitAuto ==
  /\ InitUniverses
  /\ InitStats
  /\ InitPage(TRUE, TRUE)
  /\ inputs \in {FormWith(<<"1">>, <<"1">>), FormWith(<<"-", "1">>, <<"1">>)}
  /\ params = NoParams

\* Clicks, checkbox changes, delayed simulations and loop timers in any order
NextAuto ==
  \/ ClickRun
  \/ ToggleAuto
  \/ RafCallback
  \/ SimCallback({"nonlinear"}, {"isolated"}, OneDraw)
  \/ \E id \in 1..MaxTimer : LoopTimer(id)

SpecAuto == InitAuto /\ [][NextAuto]_vars

\* ---------------------------------------------------- claims on SpecStep
\* What a step call (made directly or by run) did to universe 1:
\* lastOp' names the call, the unprimed variables are the state before it
IsStep == lastOp'.op = "step"

Grew ==
  /\ Len(history'[1]) = Len(history[1]) + 1
  /\ SubSeq(history'[1], 1, Len(history[1])) = history[1]
  /\ \A i \in 1..Len(history[1]) : heap'[history'[1][i]] = heap[history[1][i]]

AfterFreshRun ==
  (lastOp.op = "run" /\ lastOp.c = 1 /\ lastOp.a >= 1)
    => /\ Len(history[1]) = lastOp.a
       /\ DOMAIN levels[1] = 1..(lastOp.a - 1)

\* C5 as stated: step(0, .) changes neither history nor levels, EVERY
\* step(t, .) with t >= 1 appends exactly one vector to history and keeps the
\* entries before it, and run(steps, maxLevel) on a fresh universe with
\* steps >= 1 leaves steps entries and the level keys 1..steps-1.
C5_Original ==
  [][/\ (IsStep /\ lastOp'.a = 0) => (history' = history /\ levels' = levels)
     /\ (IsStep /\ lastOp'.a >= 1) => Grew
     /\ AfterFreshRun']_vars

\* C5 amended: as C5, for the steps step(t, .) with 1 <= t <= len(history),
\* that is when history[t-1] exists (a step with t > len(history) throws and
\* appends nothing).
C5_AppendOnly ==
  [][/\ (IsStep /\ lastOp'.a = 0) => (history' = history /\ levels' = levels)
     /\ (IsStep /\ lastOp'.a >= 1 /\ lastOp'.a <= Len(history[1])) => Grew
     /\ (IsStep /\ lastOp'.a > Len(history[1]))
           => (lastOp'.threw /\ history' = history /\ heap' = heap)
     /\ AfterFreshRun']_vars

\* step(1, .) called again on a history of two entries appended a third
C5_Witness ==
  /\ lastOp.op = "step" /\ lastOp.a = 1 /\ lastOp.c = 0
  /\ Len(history[1]) = 3
  /\ 1 \in DOMAIN levels[1]
  /\ levels[1][1][0] = history[1][3]

\* The state after step(t, .) was called with t = 1, 2, 3, ... in this order
InOrder(t) == Len(history[1]) = t + 1 /\ DOMAIN levels[1] = 1..t

\* C7 as stated: in steps called with t = 1, 2, 3, ... in order, each with its
\* own maxLevel, level l of time t is written after level l-1 of time t, and
\* the memory entry levels[t-1][l-1] that is read was written by step t-1.
C7_Original ==
  (lastOp.op = "step" /\ lastOp.a >= 1 /\ InOrder(lastOp.a)) =>
    \A i \in 1..Len(lastOp.log) :
      LET e == lastOp.log[i] IN
        /\ (e.kind = "write" /\ e.l >= 1) =>
              \E j \in 1..(i - 1) : lastOp.log[j] = WriteEv(e.t, e.l - 1)
        /\ (e.kind = "read") => e.ok


\* Level l of time t, as C6 gives it: evolve of the level below at time t
\* and of that level at time t-1 (at time t itself when t = 1)
ClaimedLevel(hp, lev, mt, st, t, l) ==
  LET below == lev[t][l - 1]
      memory == IF t > 1
                THEN IF (t - 1) \in DOMAIN lev /\ (l - 1) \in DOMAIN lev[t - 1]
                     THEN lev[t - 1][l - 1] ELSE 0
                ELSE below
  IN  evolve(hp, mt, st, below, memory, l, zeros(Dim))

\* C6 as stated, for the steps the interface allows (t = 1, 2, 3, ... in
\* order): step(t, maxLevel) appends evolve(history[t-1], history[t-2] or
\* history[t-1], 0) and records it as levels[t][0]; for each l in
\* 1..maxLevel-1, levels[t][l] is evolve(levels[t][l-1], levels[t-1][l-1] or
\* levels[t][l-1], l); no level l >= maxLevel is written.
C6_Original ==
  [][(IsStep /\ lastOp'.a >= 1 /\ InOrder(lastOp'.a - 1) /\ systemType[1] # "open") =>
       LET t == lastOp'.a
           maxLevel == lastOp'.b
           h == history[1]
           h2 == history'[1]
           lev2 == levels'[1]
           mt == modelType[1]
           st == systemType[1]
           base == evolve(heap, mt, st, h[t], IF t > 1 THEN h[t - 1] ELSE h[t],
                          0, zeros(Dim))
       IN  /\ Len(h2) = Len(h) + 1
           /\ heap'[h2[Len(h2)]] = base.v
           /\ lev2[t][0] = h2[Len(h2)]
           /\ DOMAIN lev2[t] = 0..(maxLevel - 1)
           /\ \A l \in 1..(maxLevel - 1) :
                /\ ~ClaimedLevel(heap', lev2, mt, st, t, l).threw
                /\ heap'[lev2[t][l]] = ClaimedLevel(heap', lev2, mt, st, t, l).v]_vars


\* --------------------------------------------------- claims on SpecRetro
IsRetro == lastOp'.op = "retro"

InRange(t) == t < Len(history[1])

\* C2: retro_influence changes nothing except the slot history[t_past]: the
\* length of history, every other history entry, every entry of levels
\* (levels[t_past][0] too) and the caller's seed array keep their reference
\* and their contents, and infinite_state(t) is the same for every t.
C2_RetroFrame ==
  [][IsRetro =>
       LET t_past == lastOp'.b
           h == history[1]
           h2 == history'[1]
       IN  /\ Len(h2) = Len(h)
           /\ \A i \in 1..Len(h) :
                i # t_past + 1 => (h2[i] = h[i] /\ heap'[h2[i]] = heap[h[i]])
           /\ levels'[1] = levels[1]
           /\ LevelVals(heap', levels'[1]) = LevelVals(heap, levels[1])
           /\ seedRef'[1] = seedRef[1]
           /\ seedRef[1] # 0 => heap'[seedRef[1]] = heap[seedRef[1]]
           /\ \A t \in Times :
                infinite_state(heap', levels'[1], dim[1], t)
                  = infinite_state(heap, levels[1], dim[1], t)]_vars

\* A call that rewrote history[t_past], t_past >= 1: the slot now holds a
\* new array with other contents than levels[t_past][0], which it aliased
C2_Witness ==
  /\ lastOp.op = "retro" /\ lastOp.b >= 1 /\ InRange(lastOp.a) /\ InRange(lastOp.b)
  /\ lastOp.b \in DOMAIN levels[1]
  /\ history[1][lastOp.b + 1] # levels[1][lastOp.b][0]
  /\ heap[history[1][lastOp.b + 1]] # heap[levels[1][lastOp.b][0]]

\* C3: retro_influence with t_future >= len(history) or t_past >=
\* len(history) (an index equal to len(history) included) returns without
\* error and leaves the length and every entry of history unchanged, for
\* every strength.
C3_RetroNoOp ==
  [][(IsRetro /\ (lastOp'.a >= Len(history[1]) \/ lastOp'.b >= Len(history[1]))) =>
       /\ ~lastOp'.threw
       /\ history'[1] = history[1]
       /\ HistVals(heap', history'[1]) = HistVals(heap, history[1])]_vars

\* A call with an index equal to len(history), on a history of two entries
\* or more, with a strength other than 0
C3_Witness ==
  /\ lastOp.op = "retro" /\ ~lastOp.threw /\ lastOp.c # 0
  /\ Len(history[1]) >= 2
  /\ lastOp.a = Len(history[1]) \/ lastOp.b = Len(history[1])

\* Component j of the sum of levelMap[l] / (l+1) over the level keys l >= lo
RECURSIVE WeightedSum(_, _, _, _)
WeightedSum(hp, levelMap, keys, j) ==
  IF keys = {} THEN 0
  ELSE LET l == CHOOSE x \in keys : \A y \in keys : x >= y
       IN  Mul(hp[levelMap[l]][j], SC \div (l + 1))
             + WeightedSum(hp, levelMap, keys \ {l}, j)

SumOfLevels(t, lo) ==
  LET levelMap == IF t \in DOMAIN levels[1] THEN levels[1][t] ELSE EmptyMap
  IN  [j \in 1..dim[1] |->
         WeightedSum(heap, levelMap, {l \in DOMAIN levelMap : l >= lo}, j)]

\* C1 as stated: infinite_state(t) is the sum over the levels l >= 1 only of
\* levels[t][l] / (l+1); the level-0 state of time t contributes nothing.
C1_Original ==
  lastOp.op = "infinite_state" => ret.vec = SumOfLevels(lastOp.a, 1)

\* The pair (t, level) was never computed
NeverComputed(t, level) ==
  IF level = 0 THEN t >= Len(history[1])
  ELSE t \notin DOMAIN levels[1] \/ level \notin DOMAIN levels[1][t]

\* C10: get_state(t, level), called directly or by Observer.perceive, for a
\* pair (t, level) that was never computed fails with an error; it never
\* returns undefined.
C10_Original ==
  (lastOp.op \in {"get_state", "perceive"} /\ NeverComputed(lastOp.a, lastOp.b))
    => (lastOp.threw /\ ret.kind = "throw")


\* ---------------------------------------------------- claims on SpecPair
\* C8: two universes constructed with the same dim, modelType, systemType
\* and explicit seed (the same array object or a copy) and run with the same
\* steps and maxLevel end their runs with identical history and levels
\* whenever systemType is not "open", whichever the model, also when
\* retro_influence was applied to one of them between the two runs.
C8_Deterministic ==
  (/\ runResult[1].done /\ runResult[2].done
   /\ runResult[1].steps = runResult[2].steps
   /\ runResult[1].maxLevel = runResult[2].maxLevel
   /\ systemType[1] # "open")
    => /\ runResult[1].history = runResult[2].history
       /\ runResult[1].levels = runResult[2].levels

\* Universe 2, given the seed array of universe 1, has just returned from
\* its run of three steps or more; universe 1 had run before and was then
\* perturbed at t_past = 0, the slot that held the shared seed array
C8_Witness ==
  /\ lastOp.op = "run" /\ lastOp.u = 2 /\ lastOp.a >= 3 /\ lastOp.b >= 2
  /\ systemType[1] # "open"
  /\ seedRef[2] = seedRef[1]
  /\ runResult[1].done /\ runResult[2].done
  /\ nRetro = 1
  /\ history[1][1] # seedRef[1]
  /\ HistVals(heap, history[1]) # runResult[1].history


\* -------------------------------------------------- claims on SpecParams
\* C9: whatever the raw input values, the parameters getParameters returns
\* satisfy 0 <= t0 <= steps-1, 0 <= t1 <= steps-1 and t1 > t0.
C9_Original ==
  params.valid =>
    /\ 0 <= params.t0 /\ params.t0 <= params.steps - 1
    /\ 0 <= params.t1 /\ params.t1 <= params.steps - 1
    /\ params.t1 > params.t0


\* ----------------------------------------------- claims on SpecConstruct
\* C11: constructing a LivingUniverse with dim < 1 fails: no universe with a
\* history is produced for such a dim, with or without an explicit seed.
C11_Original ==
  (lastOp.op = "construct" /\ lastOp.a < 1)
    => (lastOp.threw /\ history[lastOp.u] = <<>>)


\* --------------------------------------------------- claims on SpecStats
\* C12: for every ensemble size count >= 1 and every parameter set, the
\* variance of the infinite-state norms that the ensemble runner reports,
\* E[X^2] - E[X]^2 over the count universes clamped at zero, is >= 0.
C12_VarianceNonNegative ==
  stats.valid => (stats.count >= 1 /\ stats.varInf >= 0)

\* Statistics were reported for two universes or more whose norms differ so
\* little that the rounded difference E[X^2] - E[X]^2 is below zero
C12_Witness ==
  /\ stats.valid /\ stats.count >= 2
  /\ (stats.sumInfSq \div stats.count) - Mul(stats.meanInf, stats.meanInf) < 0
  /\ stats.varInf = 0


\* ----------------------------------------------------- claims on SpecSim
\* The parameter sets the claim is about
Producible(p) ==
  /\ p.steps \in 10..500
  /\ p.maxLevels \in 5..100
  /\ p.t0 \in 0..(p.steps - 1)
  /\ p.obsLevel \in 0..(p.maxLevels - 1)

\* C13: for every parameter set the caller can produce, after run(steps,
\* maxLevels) the reads of one simulation run, get_state(t0),
\* infinite_state(t0) and Observer(universe, obsLevel).perceive(t0), each
\* complete without throwing and return a computed state vector, also for
\* t0 == 0 with obsLevel >= 1.
C13_Original ==
  (sim.done /\ Producible(params)) =>
    /\ ~sim.threw
    /\ sim.before = "value"
    /\ sim.inf = "value"
    /\ sim.obs = "value"


\* ---------------------------------------------------- claims on SpecAuto
\* C14: under every interleaving of run-button clicks, auto-run checkbox
\* changes, delayed simulation callbacks and loop-timer callbacks, at most
\* one auto-run loop timer is pending at any time, and whenever
\* autoRunHandle is null no loop timer is pending.
C14_OneLoop ==
  /\ Cardinality(loopTimers) <= 1
  /\ autoRunHandle = 0 => loopTimers = {}

\* A loop timer is pending that an earlier loop timer set, while a delayed
\* simulation is pending too and auto-run is on
C14_Witness ==
  /\ autoRun(autoEl)
  /\ autoRunHandle >= 2
  /\ loopTimers = {autoRunHandle}
  /\ simTimers > 0

====
